---- MODULE Spec2Model ----
(***************************************************************************)
(* Sales-analytics dashboard: the Excel upload handler, the listing and    *)
(* clear handlers of server/routes.ts, over the record store interface.    *)
(*                                                                         *)
(* JavaScript values are modelled as follows.                              *)
(*   - a spreadsheet cell is a record [t, n, s]: t = "undef" (key absent), *)
(*     t = "num" (a number, n in TENTHS, so n = 127 is 12.7) or t = "str"  *)
(*     (a string, s a sequence of one-character strings);                  *)
(*   - a parsed float (latitude, longitude) is an integer count of tenths; *)
(*   - a parsed integer (sales, total) is an integer;                      *)
(*   - NaN is the reserved integer NaN, propagated by Plus and falsy.      *)
(***************************************************************************)
EXTENDS Integers, Sequences, FiniteSets, TLC

\* ------------------------------------------------------------------ bounds
\* The number of upload requests of a behaviour.
MaxUploads == 2
\* The most rows of a sheet of the analytics specification.
MaxRecords == 2
\* The most records the listing hands to the data table.
MaxTableRecords == 25

\* The map is followed over at most this many changes of its inputs.
MaxMapUpdates == 4

\* ------------------------------------------------------- JavaScript values
NaN == -999999

Undef == [t |-> "undef", n |-> 0, s |-> <<>>]
Num(n) == [t |-> "num", n |-> n, s |-> <<>>]
Str(s) == [t |-> "str", n |-> 0, s |-> s]

\* ToBoolean of a cell: undefined, "" and 0 are falsy.
Truthy(c) ==
    CASE c.t = "undef" -> FALSE
      [] c.t = "num" -> c.n # 0
      [] OTHER -> c.s # <<>>

\* a || b on cells.
Or(a, b) == IF Truthy(a) THEN a ELSE b

Digits == {"0", "1", "2", "3", "4", "5", "6", "7", "8", "9"}

DigitVal(c) ==
    CASE c = "0" -> 0 [] c = "1" -> 1 [] c = "2" -> 2 [] c = "3" -> 3
      [] c = "4" -> 4 [] c = "5" -> 5 [] c = "6" -> 6 [] c = "7" -> 7
      [] c = "8" -> 8 [] OTHER -> 9

RECURSIVE SkipWs(_)
SkipWs(s) == IF s # <<>> /\ Head(s) = " " THEN SkipWs(Tail(s)) ELSE s

RECURSIVE DigitRun(_)
DigitRun(s) ==
    IF s # <<>> /\ Head(s) \in Digits
    THEN <<Head(s)>> \o DigitRun(Tail(s))
    ELSE <<>>

RECURSIVE DigitsValue(_, _)
DigitsValue(d, acc) ==
    IF d = <<>> THEN acc ELSE DigitsValue(Tail(d), 10 * acc + DigitVal(Head(d)))

\* Truncation toward zero of n tenths.
Trunc10(n) == IF n >= 0 THEN n \div 10 ELSE -((-n) \div 10)

\* parseInt of a string: leading white space, a sign, the longest digit run.
ParseIntStr(s) ==
    LET t == SkipWs(s)
        neg == t # <<>> /\ Head(t) = "-"
        u == IF t # <<>> /\ Head(t) \in {"-", "+"} THEN Tail(t) ELSE t
        d == DigitRun(u)
    IN  IF d = <<>> THEN NaN
        ELSE IF neg THEN -DigitsValue(d, 0) ELSE DigitsValue(d, 0)

\* parseFloat of a string, in tenths: as parseInt, then "." and a digit run
\* (digits after the first decimal are dropped by the tenths representation).
ParseFloatStr(s) ==
    LET t == SkipWs(s)
        neg == t # <<>> /\ Head(t) = "-"
        u == IF t # <<>> /\ Head(t) \in {"-", "+"} THEN Tail(t) ELSE t
        d == DigitRun(u)
        r == SubSeq(u, Len(d) + 1, Len(u))
        f == IF r # <<>> /\ Head(r) = "." THEN DigitRun(Tail(r)) ELSE <<>>
        frac == IF f = <<>> THEN 0 ELSE DigitVal(Head(f))
        mag == 10 * DigitsValue(d, 0) + frac
    IN  IF d = <<>> /\ f = <<>> THEN NaN
        ELSE IF neg THEN -mag ELSE mag

\* parseInt(x): x is converted to a string first; for a number that is the
\* integer part of its decimal expansion.
parseInt(c) ==
    CASE c.t = "num" -> Trunc10(c.n)
      [] c.t = "str" -> ParseIntStr(c.s)
      [] OTHER -> NaN

\* parseFloat(x), in tenths.
parseFloat(c) ==
    CASE c.t = "num" -> c.n
      [] c.t = "str" -> ParseFloatStr(c.s)
      [] OTHER -> NaN

\* a + b on numbers.
Plus(a, b) == IF a = NaN \/ b = NaN THEN NaN ELSE a + b

\* a || b on numbers: 0 and NaN are falsy.
OrNumMutNoFallback(a, b) == a

OrNum(a, b) == IF a # 0 /\ a # NaN THEN a ELSE b

\* ---------------------------------------------------------- environment
\* process.env: TRUE when the variable is set to a non-empty string.
EnvChoices ==
    { [GOOGLE_MAP_API |-> FALSE, GOOGLE_GEOCODING_API |-> FALSE, VITE_GOOGLE_MAPS_API_KEY |-> FALSE],
      [GOOGLE_MAP_API |-> TRUE, GOOGLE_GEOCODING_API |-> FALSE, VITE_GOOGLE_MAPS_API_KEY |-> FALSE],
      [GOOGLE_MAP_API |-> FALSE, GOOGLE_GEOCODING_API |-> TRUE, VITE_GOOGLE_MAPS_API_KEY |-> FALSE],
      [GOOGLE_MAP_API |-> FALSE, GOOGLE_GEOCODING_API |-> FALSE, VITE_GOOGLE_MAPS_API_KEY |-> TRUE] }

\* const apiKey = process.env.GOOGLE_MAP_API || process.env.GOOGLE_GEOCODING_API
UploadApiKey(e) == e.GOOGLE_MAP_API \/ e.GOOGLE_GEOCODING_API

\* The environments of the request-level specification.
CoreEnvChoices == { e \in EnvChoices : ~e.GOOGLE_GEOCODING_API /\ ~e.VITE_GOOGLE_MAPS_API_KEY }

\* ------------------------------------------------------- row normalizer
\* The outcome of the awaited fetch + json of one row.
\*   "ok"    : status OK with at least one result, location (lat, lng);
\*   "notok" : another status, or no result;
\*   "throw" : the fetch or the JSON parse throws.
GeoOk(lat, lng) == [kind |-> "ok", lat |-> lat, lng |-> lng]
GeoNotOk == [kind |-> "notok", lat |-> 0, lng |-> 0]
GeoThrow == [kind |-> "throw", lat |-> 0, lng |-> 0]
\* No fetch was made for the row (no key, or no state, or no city).
GeoNone == [kind |-> "none", lat |-> 0, lng |-> 0]

GeoOutcomes == {GeoOk(153, 741), GeoOk(0, 741), GeoNotOk, GeoThrow}
\* The outcomes of the request-level specification.
CoreGeoOutcomes == {GeoOk(153, 741), GeoNotOk}

RowState(row) == Or(Or(row.State, row.state), Str(<<>>))
RowCity(row) == Or(Or(row.City, row.city), Str(<<>>))

\* if (apiKey && state && city)
NeedsGeocode(row, apiKey) ==
    apiKey /\ Truthy(RowState(row)) /\ Truthy(RowCity(row))

ExcelLatitude(row) == parseFloat(Or(Or(row.Latitude, row.latitude), Str(<<"0">>)))
ExcelLongitude(row) == parseFloat(Or(Or(row.Longitude, row.longitude), Str(<<"0">>)))

RowLatitudeMutNoFallback(row, g) ==
    IF g.kind = "none" THEN ExcelLatitude(row) ELSE g.lat

RowLatitude(row, g) == IF g.kind = "ok" THEN g.lat ELSE ExcelLatitude(row)
RowLongitude(row, g) == IF g.kind = "ok" THEN g.lng ELSE ExcelLongitude(row)

RowSales(c) == parseInt(Or(c, Str(<<"0">>)))
RowTotal(row) == parseInt(Or(Or(row.Total, row.total), Str(<<"0">>)))

\* if (!state || !city || latitude === 0 || longitude === 0) continue;
SkipInvalidMutNoPlace(row, g) ==
    \/ RowLatitude(row, g) = 0
    \/ RowLongitude(row, g) = 0

SkipInvalidMutBothZero(row, g) ==
    \/ ~Truthy(RowState(row))
    \/ ~Truthy(RowCity(row))
    \/ (RowLatitude(row, g) = 0 /\ RowLongitude(row, g) = 0)

SkipInvalid(row, g) ==
    \/ ~Truthy(RowState(row))
    \/ ~Truthy(RowCity(row))
    \/ RowLatitude(row, g) = 0
    \/ RowLongitude(row, g) = 0

\* const salesData: InsertSalesData = { ... }
SalesDataOf(row, g) ==
    LET sales2022 == RowSales(row.y2022)
        sales2023 == RowSales(row.y2023)
        sales2024 == RowSales(row.y2024)
        sales2025 == RowSales(row.y2025)
        total == RowTotal(row)
    IN  [state |-> RowState(row),
         city |-> RowCity(row),
         latitude |-> RowLatitude(row, g),
         longitude |-> RowLongitude(row, g),
         sales2022 |-> sales2022,
         sales2023 |-> sales2023,
         sales2024 |-> sales2024,
         sales2025 |-> sales2025,
         total |-> OrNum(total, Plus(Plus(Plus(sales2022, sales2023), sales2024), sales2025))]

\* insertSalesDataSchema.parse: the type and required-field check of the
\* record: text state and city, numbers for the coordinates, integers for
\* the sales figures (NaN is not a number for the validator).
insertSalesDataSchema(d) ==
    /\ d.state.t = "str"
    /\ d.city.t = "str"
    /\ d.latitude # NaN
    /\ d.longitude # NaN
    /\ d.sales2022 # NaN
    /\ d.sales2023 # NaN
    /\ d.sales2024 # NaN
    /\ d.sales2025 # NaN
    /\ d.total # NaN

\* One iteration of the row loop once the coordinates are known: is the row
\* pushed on salesDataArray?
RowAccepted(row, g) ==
    /\ ~SkipInvalid(row, g)
    /\ insertSalesDataSchema(SalesDataOf(row, g))

PushRow(arr, row, g) ==
    IF RowAccepted(row, g) THEN Append(arr, SalesDataOf(row, g)) ELSE arr

\* The row loop runs without yielding until a row awaits its fetch, or the
\* rows are exhausted.
RECURSIVE RunRowsMutAbort(_, _, _)
RunRowsMutAbort(rest, arr, apiKey) ==
    IF rest = <<>> \/ NeedsGeocode(Head(rest), apiKey)
    THEN [rest |-> rest, arr |-> arr]
    ELSE IF ~RowAccepted(Head(rest), GeoNone)
    THEN [rest |-> <<>>, arr |-> arr]
    ELSE RunRowsMutAbort(Tail(rest), PushRow(arr, Head(rest), GeoNone), apiKey)

RECURSIVE RunRows(_, _, _)
RunRows(rest, arr, apiKey) ==
    IF rest = <<>> \/ NeedsGeocode(Head(rest), apiKey)
    THEN [rest |-> rest, arr |-> arr]
    ELSE RunRows(Tail(rest), PushRow(arr, Head(rest), GeoNone), apiKey)

\* ------------------------------------------------------------ the inputs
\* A whole number n as a cell.
Whole(n) == Num(10 * n)

sGoa == <<"G", "o", "a">>
sPanaji == <<"P", "a", "n", "a", "j", "i">>
sPune == <<"P", "u", "n", "e">>
sMH == <<"M", "H">>
sBlank == <<" ">>
sAbc == <<"a", "b", "c">>

\* The (State, state) cells of a row; likewise the other columns.
StateOpts ==
    { <<Undef, Undef>>, <<Str(<<>>), Undef>>, <<Str(<<>>), Str(sGoa)>>,
      <<Str(sBlank), Undef>>, <<Str(sGoa), Undef>>, <<Whole(5), Undef>> }

CityOpts ==
    { <<Undef, Undef>>, <<Str(<<>>), Str(<<>>)>>, <<Str(sPune), Undef>>,
      <<Undef, Str(sBlank)>> }

\* (Latitude, latitude, Longitude, longitude)
CoordOpts ==
    { <<Undef, Undef, Undef, Undef>>,
      <<Num(155), Undef, Num(738), Undef>>,
      <<Undef, Str(<<"1", "8", ".", "5">>), Undef, Str(<<"7", "3", ".", "9">>)>>,
      <<Num(0), Undef, Num(738), Undef>>,
      <<Num(155), Undef, Undef, Undef>>,
      <<Str(sAbc), Undef, Num(738), Undef>> }

\* (2022, 2023, 2024, 2025)
YearOpts ==
    { <<Undef, Undef, Undef, Undef>>,
      <<Whole(100), Whole(0), Undef, Whole(150)>>,
      <<Str(<<"1", "2">>), Num(127), Whole(3), Whole(4)>>,
      <<Str(sAbc), Whole(1), Whole(1), Whole(1)>>,
      <<Whole(-50), Whole(10), Whole(10), Whole(10)>> }

\* (Total, total)
TotalOpts ==
    { <<Undef, Undef>>, <<Whole(0), Whole(70)>>, <<Whole(500), Undef>>,
      <<Str(sAbc), Undef>>, <<Num(5), Undef>>, <<Whole(-30), Undef>> }

MkRow(st, ci, co, ye, to) ==
    [State |-> st[1], state |-> st[2], City |-> ci[1], city |-> ci[2],
     Latitude |-> co[1], latitude |-> co[2],
     Longitude |-> co[3], longitude |-> co[4],
     y2022 |-> ye[1], y2023 |-> ye[2], y2024 |-> ye[3], y2025 |-> ye[4],
     Total |-> to[1], total |-> to[2]]

\* Every raw row of the row-level specification.
AllRows ==
    { MkRow(st, ci, co, ye, to) :
        st \in StateOpts, ci \in CityOpts, co \in CoordOpts,
        ye \in YearOpts, to \in TotalOpts }

rGoa ==
    MkRow(<<Str(sGoa), Undef>>, <<Str(sPanaji), Undef>>,
          <<Num(155), Undef, Num(738), Undef>>,
          <<Whole(100), Undef, Undef, Whole(150)>>, <<Undef, Undef>>)

rPune ==
    MkRow(<<Undef, Str(sMH)>>, <<Undef, Str(sPune)>>,
          <<Undef, Num(185), Undef, Num(739)>>,
          <<Undef, Undef, Whole(20), Undef>>, <<Whole(500), Undef>>)

rNoState ==
    MkRow(<<Undef, Undef>>, <<Str(sPune), Undef>>,
          <<Num(185), Undef, Num(739), Undef>>,
          <<Whole(1), Whole(2), Whole(3), Whole(4)>>, <<Undef, Undef>>)

\* A row insertSalesDataSchema.parse throws on: its 2022 figure is no number.
rBadYear ==
    MkRow(<<Str(sGoa), Undef>>, <<Str(sPanaji), Undef>>,
          <<Num(155), Undef, Num(738), Undef>>,
          <<Str(sAbc), Whole(1), Whole(1), Whole(1)>>, <<Undef, Undef>>)

\* The MIME types of the uploaded part.
XlsxType == "application/vnd.openxmlformats-officedocument.spreadsheetml.sheet"
XlsType == "application/vnd.ms-excel"
OdsType == "application/vnd.oasis.opendocument.spreadsheet"
CsvType == "text/csv"

\* The file part of an upload request: absent, a buffer XLSX.read throws on,
\* or a workbook whose first sheet holds the rows; with the MIME type the
\* client declares and the size in bytes.
NoFile == [kind |-> "none", rows |-> <<>>, mimetype |-> XlsxType, size |-> 0]
BadFile == [kind |-> "corrupt", rows |-> <<>>, mimetype |-> XlsxType, size |-> 2048]
Sheet(rows) == [kind |-> "sheet", rows |-> rows, mimetype |-> XlsxType, size |-> 2048]
WithType(f, mimetype) == [f EXCEPT !.mimetype = mimetype]
WithSize(f, size) == [f EXCEPT !.size = size]

\* ------------------------------------------------ multer: upload.single
\* limits: { fileSize: 10 * 1024 * 1024 }
fileSize == 10 * 1024 * 1024

allowedTypes == {XlsxType, XlsType, OdsType}

\* fileFilter: cb(null, true) for an allowed type, cb(new Error(...)) otherwise.
fileFilterMutAcceptAll(f) == TRUE

fileFilter(f) == f.mimetype \in allowedTypes

\* The middleware passes the request on to the handler; otherwise it hands
\* an error to Express and the handler never runs.
MulterPasses(f) == f.kind = "none" \/ (fileFilter(f) /\ f.size <= fileSize)

MulterError(f) ==
    IF ~fileFilter(f) THEN "Invalid file type. Please upload an Excel file."
    ELSE "File too large"

\* The (2022, 2023, 2024, 2025) cells of the rows of the analytics
\* specification: no figures, a zero base, growth of exactly 10%, just over
\* 10%, exactly 50%, just over 50%, a decline, a third, a negative base, and
\* plus and minus an eighth.
GrowthOpts ==
    { <<Undef, Undef, Undef, Undef>>,
      <<Whole(0), Undef, Whole(20), Whole(50)>>,
      <<Whole(100), Undef, Undef, Whole(110)>>,
      <<Whole(100), Undef, Undef, Whole(111)>>,
      <<Whole(100), Undef, Whole(20), Whole(150)>>,
      <<Whole(100), Undef, Undef, Whole(151)>>,
      <<Whole(100), Undef, Undef, Whole(40)>>,
      <<Whole(3), Undef, Undef, Whole(4)>>,
      <<Whole(-50), Undef, Undef, Whole(10)>>,
      <<Whole(8), Undef, Undef, Whole(9)>>,
      <<Whole(8), Undef, Undef, Whole(7)>> }

GrowthRows ==
    { MkRow(<<Str(sGoa), Undef>>, <<Str(sPanaji), Undef>>,
            <<Num(155), Undef, Num(738), Undef>>, ye, <<Undef, Undef>>) :
        ye \in GrowthOpts }

\* The sheets of at most MaxRecords of these rows.
RowsUpTo(n) == UNION { [1..k -> GrowthRows] : k \in 0..n }
GrowthSheets == { Sheet(rows) : rows \in RowsUpTo(MaxRecords) }

\* The workbooks of the concurrent specifications: a sheet with no valid row,
\* one with a valid and an invalid row, one with a valid row.
CoreSheets ==
    { Sheet(<<rNoState>>), Sheet(<<rGoa, rNoState>>), Sheet(<<rPune>>) }
\* The workbooks of the sequential specification: those, and a sheet with
\* two valid rows around an invalid one.
SeqSheets ==
    CoreSheets \cup { Sheet(<<rGoa, rNoState, rPune>>) }
\* The requests that fail before the row loop.
FailingFiles == {NoFile, BadFile}
\* Uploads multer refuses: a readable sheet declared as CSV, and one of an
\* allowed type that is one byte over the size limit.
CsvFile == WithType(Sheet(<<rGoa>>), CsvType)
LargeFile == WithSize(WithType(Sheet(<<rPune>>), XlsType), fileSize + 1)
UnsupportedFiles == {CsvFile, LargeFile}
\* The files of the batch specification: a sheet with a row the validator
\* throws on, a sheet of another allowed type, and the failing and the
\* unsupported ones.
BatchFiles ==
    { Sheet(<<rBadYear, rGoa, rNoState>>), WithType(Sheet(<<rPune>>), OdsType) }
        \cup FailingFiles \cup UnsupportedFiles
RowFiles == { Sheet(<<r>>) : r \in AllRows }

\* ---------------------------------------------------------------- state
VARIABLES
    env,        \* process.env, fixed for the life of the process
    store,      \* the record store: the stored records in insertion order
    currentId,  \* the next id the store assigns
    up,         \* the upload requests: position in the handler and locals
    seen,       \* the last response of the sales-data listing
    cleared,    \* a clear-data request was answered and no upload inserted since
    analytics,  \* the last response of the analytics endpoint
    proxy,      \* the last response of the geocode proxy
    config,     \* the last response of the maps-config endpoint
    table,      \* the DataTable component: its query data and React state
    mapView     \* the MapVisualization component, its props and the map's overlays

vars == <<env, store, currentId, up, seen, cleared, analytics, proxy, config, table, mapView>>

\* The state of the client components.
client == <<table, mapView>>

\* The responses of the endpoints that only read.
replies == <<analytics, proxy, config>>

Uploads == 1..MaxUploads

\* An upload request. pc is the await the handler is suspended at:
\*   "idle"   the request has not arrived,
\*   "fetch"  awaiting the geocoding fetch of Head(rest),
\*   "clear"  awaiting storage.clearSalesData(),
\*   "insert" awaiting storage.createMultipleSalesData(salesDataArray),
\*   "done"   the response is sent.
\* file, geo, calls, pre, post and mixed record the history of the request:
\* the uploaded file, the geocoding outcomes in row order, the storage
\* methods the handler called, the store when the request arrived, the store
\* when the response was sent, and whether another request changed the store
\* while this one was in flight.
IdleUpload ==
    [pc |-> "idle", file |-> NoFile, rest |-> <<>>, arr |-> <<>>,
     geo |-> <<>>, calls |-> <<>>, status |-> 0, message |-> "", count |-> 0,
     pre |-> <<>>, post |-> <<>>, mixed |-> FALSE]

InFlight(r) == r.pc \in {"fetch", "clear", "insert"}

\* A listing response: the data, and the uploads in flight when it was read.
NoRead == [valid |-> FALSE, data |-> <<>>, during |-> {}]

\* No response of an endpoint yet.
NoReply == [valid |-> FALSE]

\* DataTable as mounted: useQuery's default [], useState("") and useState(1).
InitialTable == [salesData |-> <<>>, searchTerm |-> <<>>, currentPage |-> 1]

\* window.currentHeatmap when undefined.
NoOverlay == [kind |-> "none", of |-> 0, update |-> 0]

\* MapVisualization as mounted by the dashboard: selectedYears, viewMode and
\* showLabels are the dashboard's useState defaults, salesData is useQuery's
\* default [], the map is not loaded and nothing is drawn on it. update
\* counts the changes of the effect's dependencies so far.
Years == {"2022", "2023", "2024", "2025"}

InitialMap ==
    [isMapLoaded |-> FALSE,
     salesData |-> <<>>,
     selectedYears |-> Years,
     viewMode |-> "markers",
     showLabels |-> TRUE,
     currentMarkers |-> <<>>,
     currentHeatmap |-> NoOverlay,
     onMap |-> {},
     update |-> 0]

InitWith(envs) ==
    /\ env \in envs
    /\ store = <<>>
    /\ currentId = 1
    /\ up = [u \in Uploads |-> IdleUpload]
    /\ seen = NoRead
    /\ cleared = FALSE
    /\ analytics = NoReply
    /\ proxy = NoReply
    /\ config = NoReply
    /\ table = InitialTable
    /\ mapView = InitialMap

Init == InitWith(CoreEnvChoices)

InitRow == InitWith(EnvChoices)

\* ------------------------------------------------------- the record store
\* storage.clearSalesData()
clearSalesData(s) == <<>>

\* storage.createMultipleSalesData(arr): every record gets the next id.
WithId(d, id) ==
    [id |-> id, state |-> d.state, city |-> d.city,
     latitude |-> d.latitude, longitude |-> d.longitude,
     sales2022 |-> d.sales2022, sales2023 |-> d.sales2023,
     sales2024 |-> d.sales2024, sales2025 |-> d.sales2025,
     total |-> d.total]

createMultipleSalesData(arr, id) == [i \in 1..Len(arr) |-> WithId(arr[i], id + i - 1)]

\* storage.getAllSalesData()
getAllSalesData(s) == s

\* --------------------------------------------------- POST /api/upload-excel
\* Where the handler suspends or responds once the row loop has stopped.
AfterRowsMutNoEmptyCheck(run) ==
    IF run.rest # <<>> THEN "fetch" ELSE "clear"

AfterRowsMutNoClear(run) ==
    IF run.rest # <<>> THEN "fetch"
    ELSE IF Len(run.arr) = 0 THEN "respond400"
    ELSE "insert"

AfterRows(run) ==
    IF run.rest # <<>> THEN "fetch"
    ELSE IF Len(run.arr) = 0 THEN "respond400"
    ELSE "clear"

Respond(r, status, message, count, now) ==
    [r EXCEPT !.pc = "done", !.rest = <<>>, !.status = status,
              !.message = message, !.count = count, !.post = now]

\* Run the row loop from r.rest to the next await or response.
Continue(r, apiKey) ==
    LET run == RunRows(r.rest, r.arr, apiKey)
        next == AfterRows(run)
    IN  CASE next = "respond400" ->
                Respond([r EXCEPT !.arr = run.arr], 400, "No valid data found", 0, store)
          [] next = "clear" ->
                [r EXCEPT !.pc = next, !.rest = run.rest, !.arr = run.arr,
                          !.calls = Append(r.calls, "clearSalesData")]
          [] next = "insert" ->
                [r EXCEPT !.pc = next, !.rest = run.rest, !.arr = run.arr,
                          !.calls = Append(r.calls, "createMultipleSalesData")]
          [] OTHER ->
                [r EXCEPT !.pc = next, !.rest = run.rest, !.arr = run.arr]

\* Other requests in flight see the store change under them.
Mix(u) ==
    [v \in Uploads |->
        IF v # u /\ InFlight(up[v]) THEN [up[v] EXCEPT !.mixed = TRUE] ELSE up[v]]

\* The request arrives: the handler runs to its first await or response.
UploadRequest(u, f) ==
    /\ up[u].pc = "idle"
    /\ IF u = 1 THEN TRUE ELSE up[u - 1].pc # "idle"
    /\ LET r == [up[u] EXCEPT !.file = f, !.pre = store]
       IN  up' = [up EXCEPT ![u] =
                CASE ~MulterPasses(f) -> Respond(r, 500, MulterError(f), 0, store)
                  [] f.kind = "none" -> Respond(r, 400, "No file uploaded", 0, store)
                  [] f.kind = "corrupt" -> Respond(r, 500, "Failed to process Excel file", 0, store)
                  [] OTHER -> Continue([r EXCEPT !.rest = f.rows], UploadApiKey(env))]
    /\ UNCHANGED <<client, env, store, currentId, seen, cleared, replies>>

\* The fetch of the current row settles with outcome g: the row is finished
\* and the loop runs on.
GeocodeReturn(u, g) ==
    /\ up[u].pc = "fetch"
    /\ LET r == up[u]
           row == Head(r.rest)
       IN  up' = [up EXCEPT ![u] =
                Continue([r EXCEPT !.rest = Tail(r.rest),
                                   !.arr = PushRow(r.arr, row, g),
                                   !.geo = Append(r.geo, g)],
                         UploadApiKey(env))]
    /\ UNCHANGED <<client, env, store, currentId, seen, cleared, replies>>

\* await storage.clearSalesData() completes; the handler calls
\* createMultipleSalesData.
StoreClear(u) ==
    /\ up[u].pc = "clear"
    /\ store' = clearSalesData(store)
    /\ up' = [Mix(u) EXCEPT ![u] =
                [up[u] EXCEPT !.pc = "insert",
                              !.calls = Append(up[u].calls, "createMultipleSalesData")]]
    /\ UNCHANGED <<client, env, currentId, seen, cleared, replies>>

\* storage.clearSalesData() rejects: the catch block answers 500.
StoreClearFails(u) ==
    /\ up[u].pc = "clear"
    /\ up' = [up EXCEPT ![u] = Respond(up[u], 500, "store failure", 0, store)]
    /\ UNCHANGED <<client, env, store, currentId, seen, cleared, replies>>

\* await storage.createMultipleSalesData(...) completes; the handler
\* responds with the inserted records.
\* count: insertedData.length
ImportedCountMutRows(r, inserted) == Len(r.file.rows)

ImportedCount(r, inserted) == Len(inserted)

StoreInsert(u) ==
    /\ up[u].pc = "insert"
    /\ LET inserted == createMultipleSalesData(up[u].arr, currentId)
       IN  /\ store' = store \o inserted
           /\ currentId' = currentId + Len(inserted)
           /\ up' = [Mix(u) EXCEPT ![u] =
                    Respond(up[u], 200, "Successfully imported", ImportedCount(up[u], inserted),
                            store \o inserted)]
    /\ cleared' = FALSE
    /\ UNCHANGED <<client, env, seen, replies>>

\* storage.createMultipleSalesData() rejects: the catch block answers 500.
StoreInsertFails(u) ==
    /\ up[u].pc = "insert"
    /\ up' = [up EXCEPT ![u] = Respond(up[u], 500, "store failure", 0, store)]
    /\ UNCHANGED <<client, env, store, currentId, seen, cleared, replies>>

\* ----------------------------------------------------- GET /api/sales-data
GetSalesData ==
    /\ seen' = [valid |-> TRUE,
                data |-> getAllSalesData(store),
                during |-> { u \in Uploads : InFlight(up[u]) }]
    /\ UNCHANGED <<client, env, store, currentId, up, cleared, replies>>

\* ----------------------------------------------- POST /api/clear-sales-data
ClearSalesDataRequestMutNoClear ==
    /\ up' = Mix(0)
    /\ cleared' = TRUE
    /\ UNCHANGED <<client, env, store, currentId, seen, replies>>

ClearSalesDataRequest ==
    /\ store' = clearSalesData(store)
    /\ up' = Mix(0)
    /\ cleared' = TRUE
    /\ UNCHANGED <<client, env, currentId, seen, replies>>

\* ------------------------------------------------- Dashboard (client page)
\* useEffect(() => { fetch("/api/clear-sales-data", { method: "POST" }); }, [])
\* The page, once mounted, posts a clear-data request.
DashboardLoad == ClearSalesDataRequest

\* ------------------------------------------------------ GET /api/analytics
RECURSIVE Gcd(_, _)
Gcd(a, b) == IF b = 0 THEN a ELSE Gcd(b, a % b)

Abs(x) == IF x < 0 THEN -x ELSE x

\* A JavaScript number that is a quotient of integers, as the fraction n/d
\* in lowest terms with d > 0.
Frac(n, d) ==
    LET g == Gcd(Abs(n), Abs(d))
    IN  IF d < 0 THEN [n |-> (-n) \div g, d |-> (-d) \div g]
        ELSE [n |-> n \div g, d |-> d \div g]

FracAdd(a, b) == Frac(a.n * b.d + b.n * a.d, a.d * b.d)

RECURSIVE FracSum(_)
FracSum(fs) == IF fs = <<>> THEN Frac(0, 1) ELSE FracAdd(Head(fs), FracSum(Tail(fs)))

\* Math.round(x * 10) / 10 in tenths: Math.round rounds to the nearest
\* integer, a half towards +Infinity.
RoundTenths(x) == (20 * x.n + x.d) \div (2 * x.d)

\* if (item.sales2022 === 0) return 0;
\* return ((item.sales2025 - item.sales2022) / item.sales2022) * 100;
growthRate(item) ==
    IF item.sales2022 = 0 THEN Frac(0, 1)
    ELSE Frac(100 * (item.sales2025 - item.sales2022), item.sales2022)

\* data.map(...).filter(rate => !isNaN(rate) && isFinite(rate)): with the
\* guard on sales2022 every rate is a finite number and the filter keeps it.
growthRatesMutDropZeroBase(data) ==
    LET kept == SelectSeq(data, LAMBDA item : item.sales2022 # 0)
    IN  [i \in DOMAIN kept |-> growthRate(kept[i])]

growthRates(data) == [i \in DOMAIN data |-> growthRate(data[i])]

\* growthRates.length > 0 ? reduce(sum) / growthRates.length : 0
avgGrowthRate(data) ==
    LET rates == growthRates(data)
        sum == FracSum(rates)
    IN  IF Len(rates) > 0 THEN Frac(sum.n, sum.d * Len(rates)) ELSE Frac(0, 1)

\* if (item.sales2022 === 0) return item.sales2025 > 0;
\* return ((item.sales2025 - item.sales2022) / item.sales2022) > p / 10;
GrowsOverMutNotStrict(item, p) ==
    IF item.sales2022 = 0 THEN item.sales2025 > 0
    ELSE IF item.sales2022 > 0
    THEN 10 * (item.sales2025 - item.sales2022) >= p * item.sales2022
    ELSE 10 * (item.sales2025 - item.sales2022) <= p * item.sales2022

GrowsOver(item, p) ==
    IF item.sales2022 = 0 THEN item.sales2025 > 0
    ELSE IF item.sales2022 > 0
    THEN 10 * (item.sales2025 - item.sales2022) > p * item.sales2022
    ELSE 10 * (item.sales2025 - item.sales2022) < p * item.sales2022

\* data.filter(item => item.total > 0).length and the two growth counts.
activeMarkets(data) == Cardinality({ i \in DOMAIN data : data[i].total > 0 })
growthMarkets(data) == Cardinality({ i \in DOMAIN data : GrowsOver(data[i], 1) })
emergingMarkets(data) == Cardinality({ i \in DOMAIN data : GrowsOver(data[i], 5) })

RECURSIVE SumSales2024(_)
SumSales2024(data) ==
    IF data = <<>> THEN 0 ELSE Head(data).sales2024 + SumSales2024(Tail(data))

\* The seven metrics of the response; the two rates in tenths.
ZeroMetricsMutNoGuard ==
    [totalMarkets |-> 0, totalSales2024 |-> 0, avgGrowthRate |-> 0,
     marketPenetration |-> NaN, activeMarkets |-> 0, growthMarkets |-> 0,
     emergingMarkets |-> 0]

ZeroMetrics ==
    [totalMarkets |-> 0, totalSales2024 |-> 0, avgGrowthRate |-> 0,
     marketPenetration |-> 0, activeMarkets |-> 0, growthMarkets |-> 0,
     emergingMarkets |-> 0]

Metrics(data) ==
    IF Len(data) = 0 THEN ZeroMetrics
    ELSE LET totalMarkets == Len(data)
         IN  [totalMarkets |-> totalMarkets,
              totalSales2024 |-> SumSales2024(data),
              avgGrowthRate |-> RoundTenths(avgGrowthRate(data)),
              marketPenetration |-> RoundTenths(Frac(activeMarkets(data) * 100, totalMarkets)),
              activeMarkets |-> activeMarkets(data),
              growthMarkets |-> growthMarkets(data),
              emergingMarkets |-> emergingMarkets(data)]

\* The records and metrics of the responses sent so far.
Earlier == IF analytics.valid THEN analytics.earlier ELSE {}

\* The response, with the records it was computed from, whether it was
\* computed after a clear-data request with no insertion since, and the
\* records and metrics of this and every earlier response.
AnalyticsResponse(data) ==
    [valid |-> TRUE, status |-> 200,
     metrics |-> Metrics(data),
     data |-> data, cleared |-> cleared,
     earlier |-> Earlier \cup {[data |-> data, metrics |-> Metrics(data)]}]

GetAnalyticsMutShifts ==
    /\ analytics' = AnalyticsResponse(getAllSalesData(store))
    /\ store' = IF store = <<>> THEN store ELSE Tail(store)
    /\ UNCHANGED <<client, env, currentId, up, seen, cleared, proxy, config>>

GetAnalytics ==
    /\ analytics' = AnalyticsResponse(getAllSalesData(store))
    /\ UNCHANGED <<client, env, store, currentId, up, seen, cleared, proxy, config>>

\* -------------------------------------------------------- POST /api/geocode
\* const apiKey = process.env.GOOGLE_MAP_API || process.env.GOOGLE_GEOCODING_API
\*     || process.env.VITE_GOOGLE_MAPS_API_KEY
GeocodeApiKey(e) ==
    e.GOOGLE_MAP_API \/ e.GOOGLE_GEOCODING_API \/ e.VITE_GOOGLE_MAPS_API_KEY

\* Without key the handler answers 500 and calls nothing; with a key it
\* forwards the body the geocoding service answers with, or answers 500
\* when the fetch or the JSON parse throws (outcome g).
PostGeocode(g) ==
    /\ proxy' =
            IF ~GeocodeApiKey(env)
            THEN [valid |-> TRUE, status |-> 500,
                  message |-> "Google Maps API key not configured", called |-> FALSE]
            ELSE IF g.kind = "throw"
            THEN [valid |-> TRUE, status |-> 500,
                  message |-> "Geocoding failed", called |-> TRUE]
            ELSE [valid |-> TRUE, status |-> 200, message |-> g.kind, called |-> TRUE]
    /\ UNCHANGED <<client, env, store, currentId, up, seen, cleared, analytics, config>>

\* ------------------------------------------------------ GET /api/maps-config
\* const apiKey = process.env.GOOGLE_MAP_API || process.env.GOOGLE_GEOCODING_API
MapsConfigApiKey(e) == e.GOOGLE_MAP_API \/ e.GOOGLE_GEOCODING_API

\* res.json({ apiKey: apiKey || null }): apiKey FALSE is the null.
GetMapsConfig ==
    /\ config' = [valid |-> TRUE, status |-> 200, apiKey |-> MapsConfigApiKey(env)]
    /\ UNCHANGED <<client, env, store, currentId, up, seen, cleared, analytics, proxy>>

\* ------------------------------------------------- DataTable (client)
itemsPerPage == 10

\* String.prototype.toLowerCase on the letters A-Z.
toLowerCase(s) ==
    LET UpperCase ==
            <<"A", "B", "C", "D", "E", "F", "G", "H", "I", "J", "K", "L", "M",
              "N", "O", "P", "Q", "R", "S", "T", "U", "V", "W", "X", "Y", "Z">>
        LowerCase ==
            <<"a", "b", "c", "d", "e", "f", "g", "h", "i", "j", "k", "l", "m",
              "n", "o", "p", "q", "r", "s", "t", "u", "v", "w", "x", "y", "z">>
    IN  [i \in DOMAIN s |->
            IF \E k \in DOMAIN UpperCase : UpperCase[k] = s[i]
            THEN LowerCase[CHOOSE k \in DOMAIN UpperCase : UpperCase[k] = s[i]]
            ELSE s[i]]

\* String.prototype.includes
includes(s, t) ==
    \E i \in 0..(Len(s) - Len(t)) : SubSeq(s, i + 1, i + Len(t)) = t

\* salesData.filter(item => item.city... || item.state...)
filteredData(t) ==
    SelectSeq(t.salesData, LAMBDA item :
        \/ includes(toLowerCase(item.city.s), toLowerCase(t.searchTerm))
        \/ includes(toLowerCase(item.state.s), toLowerCase(t.searchTerm)))

\* Math.ceil(filteredData.length / itemsPerPage)
totalPages(t) == (Len(filteredData(t)) + itemsPerPage - 1) \div itemsPerPage

\* filteredData.slice(startIndex, startIndex + itemsPerPage)
paginatedData(t) ==
    LET startIndex == (t.currentPage - 1) * itemsPerPage
        end == IF startIndex + itemsPerPage < Len(filteredData(t))
               THEN startIndex + itemsPerPage ELSE Len(filteredData(t))
    IN  SubSeq(filteredData(t), startIndex + 1, end)

\* The query delivers a listing, salesData changes and nothing else: n
\* records, every fifth of Panaji, Goa and the others of Pune, MH.
DataReload(n) ==
    /\ table' = [table EXCEPT !.salesData =
            [i \in 1..n |->
                WithId(IF i % 5 = 0 THEN SalesDataOf(rGoa, GeoNone)
                       ELSE SalesDataOf(rPune, GeoNone), i)]]
    /\ UNCHANGED <<mapView, env, store, currentId, up, seen, cleared, replies>>

\* onChange={(e) => setSearchTerm(e.target.value)}
SetSearchTerm(term) ==
    /\ table' = [table EXCEPT !.searchTerm = term]
    /\ UNCHANGED <<mapView, env, store, currentId, up, seen, cleared, replies>>

\* The pagination bar is rendered when filteredData.length > 0; Previous is
\* disabled on page 1, Next on page totalPages.
setCurrentPagePrevious(t) == IF t.currentPage - 1 > 1 THEN t.currentPage - 1 ELSE 1

setCurrentPageNext(t) ==
    IF t.currentPage + 1 < totalPages(t) THEN t.currentPage + 1 ELSE totalPages(t)

ClickPrevious ==
    /\ Len(filteredData(table)) > 0
    /\ table.currentPage # 1
    /\ table' = [table EXCEPT !.currentPage = setCurrentPagePrevious(table)]
    /\ UNCHANGED <<mapView, env, store, currentId, up, seen, cleared, replies>>

ClickNext ==
    /\ Len(filteredData(table)) > 0
    /\ table.currentPage # totalPages(table)
    /\ table' = [table EXCEPT !.currentPage = setCurrentPageNext(table)]
    /\ UNCHANGED <<mapView, env, store, currentId, up, seen, cleared, replies>>

\* ------------------------------------------------------ MapVisualization
\* selectedYears.reduce((sum, year) => sum + (item[`sales${year}`] || 0), 0)
totalSales(item, selectedYears) ==
    (IF "2022" \in selectedYears THEN item.sales2022 ELSE 0)
    + (IF "2023" \in selectedYears THEN item.sales2023 ELSE 0)
    + (IF "2024" \in selectedYears THEN item.sales2024 ELSE 0)
    + (IF "2025" \in selectedYears THEN item.sales2025 ELSE 0)

\* An overlay drawn for the record with this id (0: the whole record set) by
\* the run of the effect after the update-th change.
Overlay(kind, id, update) == [kind |-> kind, of |-> id, update |-> update]

SeqToSet(q) == { q[i] : i \in DOMAIN q }

\* createHeatmap: one layer over a point per record, a record of weight 0
\* included; the layer is kept in window.currentHeatmap.
createHeatmap(m) ==
    LET heatmap == Overlay("heatmap", 0, m.update)
    IN  [m EXCEPT !.onMap = @ \cup {heatmap}, !.currentHeatmap = heatmap]

\* The marker of a record and, with showLabels, its label overlay, as they
\* are pushed on window.currentMarkers.
MarkersOf(item, m) ==
    IF totalSales(item, m.selectedYears) = 0 THEN <<>>
    ELSE <<Overlay("marker", item.id, m.update)>>
         \o (IF m.showLabels THEN <<Overlay("label", item.id, m.update)>> ELSE <<>>)

RECURSIVE AllMarkers(_, _)
AllMarkers(data, m) ==
    IF data = <<>> THEN <<>>
    ELSE MarkersOf(Head(data), m) \o AllMarkers(Tail(data), m)

\* createMarkers: the markers of window.currentMarkers leave the map, then
\* every record with a non-zero total over the selected years gets a marker.
createMarkers(m) ==
    LET created == AllMarkers(m.salesData, m)
    IN  [m EXCEPT !.onMap = (@ \ SeqToSet(m.currentMarkers)) \cup SeqToSet(created),
                  !.currentMarkers = created]

createClusters(m) == createMarkers(m)

\* The effect of [map, isMapLoaded, salesData, selectedYears, viewMode], run
\* in the render after one of them has changed (the actions count the change
\* in update): nothing without a loaded map or without records; otherwise
\* the overlays the window holds leave the map and those of the view mode
\* are drawn.
UpdateOverlays(m) ==
    IF ~m.isMapLoaded \/ Len(m.salesData) = 0 THEN m
    ELSE LET wiped == [m EXCEPT
                 !.onMap = (@ \ SeqToSet(m.currentMarkers)) \ {m.currentHeatmap},
                 !.currentMarkers = <<>>,
                 !.currentHeatmap = NoOverlay]
         IN  IF m.viewMode = "heatmap" THEN createHeatmap(wiped)
             ELSE IF m.viewMode = "markers" THEN createMarkers(wiped)
             ELSE createClusters(wiped)

\* calculateGrowthRate of the map, a percentage:
\* if (data.sales2022 === 0) return data.sales2025 > 0 ? 100 : 0;
\* return ((data.sales2025 - data.sales2022) / data.sales2022) * 100;
\* For integer sales figures the rounding of the quotient and of the product
\* never crosses 10 or 50: a quotient of 1/10 is the double 0.1, whose
\* product with 100 rounds to 10, and any other quotient is farther from
\* 1/10 than the rounding error. The rate is kept as an exact fraction.
calculateGrowthRateMutZeroBase(data) ==
    IF data.sales2022 = 0 THEN Frac(0, 1)
    ELSE Frac(100 * (data.sales2025 - data.sales2022), data.sales2022)

calculateGrowthRate(data) ==
    IF data.sales2022 = 0
    THEN IF data.sales2025 > 0 THEN Frac(100, 1) ELSE Frac(0, 1)
    ELSE Frac(100 * (data.sales2025 - data.sales2022), data.sales2022)

\* The three counts of the Quick Stats panel; a rate n/d, d > 0, is over a
\* percentage p when n > p * d.
QuickStats(salesData) ==
    [activeMarkets |->
        Cardinality({ i \in DOMAIN salesData : salesData[i].total > 0 }),
     growthMarkets |->
        Cardinality({ i \in DOMAIN salesData :
                        LET rate == calculateGrowthRate(salesData[i])
                        IN  rate.n > 10 * rate.d }),
     emergingMarkets |->
        Cardinality({ i \in DOMAIN salesData :
                        LET rate == calculateGrowthRate(salesData[i])
                        IN  rate.n > 50 * rate.d })]

\* The record sets the query hands to the map: none, one city, the city and
\* one without sales, another city.
MapRecordSets ==
    LET MapItem(ye, id) ==
            WithId(SalesDataOf(MkRow(<<Str(sGoa), Undef>>, <<Str(sPanaji), Undef>>,
                                     <<Num(155), Undef, Num(738), Undef>>, ye,
                                     <<Undef, Undef>>), GeoNone), id)
    IN
    { <<>>,
      <<MapItem(<<Whole(0), Undef, Whole(20), Whole(50)>>, 1)>>,
      <<MapItem(<<Whole(0), Undef, Whole(20), Whole(50)>>, 1),
        MapItem(<<Undef, Undef, Undef, Undef>>, 2)>>,
      <<MapItem(<<Whole(100), Undef, Undef, Whole(110)>>, 3)>> }

\* initializeMap: setMap and setIsMapLoaded(true).
MapLoaded ==
    /\ ~mapView.isMapLoaded
    /\ mapView.update < MaxMapUpdates
    /\ mapView' = UpdateOverlays([mapView EXCEPT !.isMapLoaded = TRUE, !.update = @ + 1])
    /\ UNCHANGED <<table, env, store, currentId, up, seen, cleared, replies>>

\* The query delivers another record set.
MapDataChange(data) ==
    /\ data # mapView.salesData
    /\ mapView.update < MaxMapUpdates
    /\ mapView' = UpdateOverlays([mapView EXCEPT !.salesData = data, !.update = @ + 1])
    /\ UNCHANGED <<table, env, store, currentId, up, seen, cleared, replies>>

\* YearFilter calls setSelectedYears.
SetSelectedYears(years) ==
    /\ years # mapView.selectedYears
    /\ mapView.update < MaxMapUpdates
    /\ mapView' = UpdateOverlays([mapView EXCEPT !.selectedYears = years, !.update = @ + 1])
    /\ UNCHANGED <<table, env, store, currentId, up, seen, cleared, replies>>

\* MapControls calls setViewMode.
SetViewMode(mode) ==
    /\ mode # mapView.viewMode
    /\ mapView.update < MaxMapUpdates
    /\ mapView' = UpdateOverlays([mapView EXCEPT !.viewMode = mode, !.update = @ + 1])
    /\ UNCHANGED <<table, env, store, currentId, up, seen, cleared, replies>>

\* MapControls calls setShowLabels: showLabels is not a dependency of the
\* effect, which does not run.
SetShowLabels(show) ==
    /\ show # mapView.showLabels
    /\ mapView' = [mapView EXCEPT !.showLabels = show]
    /\ UNCHANGED <<table, env, store, currentId, up, seen, cleared, replies>>

\* ------------------------------------------------------- specifications
\* The server under concurrent requests, over a store that does not fail.
Next ==
    \/ \E u \in Uploads, f \in CoreSheets : UploadRequest(u, f)
    \/ \E u \in Uploads, g \in CoreGeoOutcomes : GeocodeReturn(u, g)
    \/ \E u \in Uploads : StoreClear(u)
    \/ \E u \in Uploads : StoreInsert(u)
    \/ GetSalesData
    \/ ClearSalesDataRequest
    \/ DashboardLoad

Spec == Init /\ [][Next]_vars

\* The same with requests that fail before the row loop and store failures.
NextFail ==
    \/ \E u \in Uploads, f \in CoreSheets \cup FailingFiles : UploadRequest(u, f)
    \/ \E u \in Uploads, g \in CoreGeoOutcomes : GeocodeReturn(u, g)
    \/ \E u \in Uploads : StoreClear(u)
    \/ \E u \in Uploads : StoreClearFails(u)
    \/ \E u \in Uploads : StoreInsert(u)
    \/ \E u \in Uploads : StoreInsertFails(u)
    \/ GetSalesData
    \/ ClearSalesDataRequest

SpecFail == Init /\ [][NextFail]_vars

\* The server when each request is answered before the next one arrives.
Quiet == \A u \in Uploads : ~InFlight(up[u])

SeqUploadRequest(u, f) == Quiet /\ UploadRequest(u, f)
SeqGetSalesData == Quiet /\ GetSalesData
SeqClearSalesDataRequest == Quiet /\ ClearSalesDataRequest

NextSeq ==
    \/ \E u \in Uploads, f \in SeqSheets : SeqUploadRequest(u, f)
    \/ \E u \in Uploads, g \in CoreGeoOutcomes : GeocodeReturn(u, g)
    \/ \E u \in Uploads : StoreClear(u)
    \/ \E u \in Uploads : StoreInsert(u)
    \/ SeqGetSalesData
    \/ SeqClearSalesDataRequest

SpecSeq == Init /\ [][NextSeq]_vars

\* The sequential server with its scheduling: a store call the handler
\* awaits is answered, so the handler resumes after it. The geocoding fetch
\* is awaited without a timer or an abort signal: it settles when the remote
\* service or the runtime settles it, which nothing in the handler ensures.
StoreAnswers == \A u \in Uploads : WF_vars(StoreClear(u)) /\ WF_vars(StoreInsert(u))

SpecLive == Init /\ [][NextSeq]_vars /\ StoreAnswers

\* The same, sequential, with every kind of file, geocoding calls that throw
\* and store failures.
BatchGeoOutcomes == CoreGeoOutcomes \cup {GeoThrow}

NextBatch ==
    \/ \E u \in Uploads, f \in BatchFiles : SeqUploadRequest(u, f)
    \/ \E u \in Uploads, g \in BatchGeoOutcomes : GeocodeReturn(u, g)
    \/ \E u \in Uploads : StoreClear(u)
    \/ \E u \in Uploads : StoreClearFails(u)
    \/ \E u \in Uploads : StoreInsert(u)
    \/ \E u \in Uploads : StoreInsertFails(u)
    \/ SeqClearSalesDataRequest

SpecBatch == Init /\ [][NextBatch]_vars

\* The analytics endpoint over one upload, without credential, of a sheet of
\* GrowthSheets, and clear-data requests.
InitAnalytics == InitWith({ e \in EnvChoices : ~UploadApiKey(e) /\ ~e.VITE_GOOGLE_MAPS_API_KEY })

NextAnalytics ==
    \/ \E f \in GrowthSheets : UploadRequest(1, f)
    \/ StoreClear(1)
    \/ StoreInsert(1)
    \/ ClearSalesDataRequest
    \/ GetAnalytics

SpecAnalytics == InitAnalytics /\ [][NextAnalytics]_vars

\* The endpoints that read the credential, in every environment: one upload,
\* the geocode proxy and maps-config.
NextConfig ==
    \/ \E f \in SeqSheets : UploadRequest(1, f)
    \/ \E g \in BatchGeoOutcomes : GeocodeReturn(1, g)
    \/ StoreClear(1)
    \/ StoreInsert(1)
    \/ \E g \in BatchGeoOutcomes : PostGeocode(g)
    \/ GetMapsConfig

SpecConfig == InitRow /\ [][NextConfig]_vars

\* The endpoints that only read, at any moment of sequential uploads.
ReadSheets == { Sheet(<<rGoa, rNoState>>), Sheet(<<rPune>>) }

NextReads ==
    \/ \E u \in Uploads, f \in ReadSheets : SeqUploadRequest(u, f)
    \/ \E u \in Uploads, g \in CoreGeoOutcomes : GeocodeReturn(u, g)
    \/ \E u \in Uploads : StoreClear(u)
    \/ \E u \in Uploads : StoreInsert(u)
    \/ GetSalesData
    \/ GetAnalytics
    \/ \E g \in CoreGeoOutcomes : PostGeocode(g)
    \/ GetMapsConfig

SpecReads == Init /\ [][NextReads]_vars

\* The data table under reloads, typing and clicks.
NextTable ==
    \/ \E n \in 0..MaxTableRecords : DataReload(n)
    \/ \E term \in { <<>>, <<"g", "o", "a">>, <<"P", "U", "N", "E">>, <<"x", "y", "z">> } :
            SetSearchTerm(term)
    \/ ClickPrevious
    \/ ClickNext

SpecTable == InitAnalytics /\ [][NextTable]_vars

\* The map under loading, record-set changes and the dashboard's controls.
NextMap ==
    \/ MapLoaded
    \/ \E data \in MapRecordSets : MapDataChange(data)
    \/ \E years \in { Years, {"2022"}, {} } : SetSelectedYears(years)
    \/ \E mode \in {"heatmap", "markers", "clusters"} : SetViewMode(mode)
    \/ \E show \in BOOLEAN : SetShowLabels(show)

SpecMap == InitAnalytics /\ [][NextMap]_vars

\* One upload of a one-row file, the row drawn from AllRows.
NextRow ==
    \/ \E f \in RowFiles : UploadRequest(1, f)
    \/ \E g \in GeoOutcomes : GeocodeReturn(1, g)
    \/ StoreClear(1)
    \/ StoreInsert(1)

SpecRow == InitRow /\ [][NextRow]_vars

\* ------------------------------------------------------------ properties
Range(s) == { s[i] : i \in DOMAIN s }

\* A stored record without its store-assigned id.
StripId(r) ==
    [state |-> r.state, city |-> r.city,
     latitude |-> r.latitude, longitude |-> r.longitude,
     sales2022 |-> r.sales2022, sales2023 |-> r.sales2023,
     sales2024 |-> r.sales2024, sales2025 |-> r.sales2025,
     total |-> r.total]

StripIds(s) == [i \in DOMAIN s |-> StripId(s[i])]

\* The records the rows of a file yield, given the outcomes of the geocoding
\* calls made for them, in row order.
RECURSIVE AcceptedOf(_, _, _)
AcceptedOf(rows, geo, apiKey) ==
    IF rows = <<>> THEN <<>>
    ELSE LET row == Head(rows)
             fetched == NeedsGeocode(row, apiKey) /\ geo # <<>>
             g == IF fetched THEN Head(geo) ELSE GeoNone
             one == IF RowAccepted(row, g) THEN <<SalesDataOf(row, g)>> ELSE <<>>
         IN  one \o AcceptedOf(Tail(rows), IF fetched THEN Tail(geo) ELSE geo, apiKey)

Accepted(u) == AcceptedOf(up[u].file.rows, up[u].geo, UploadApiKey(env))

\* The upload answered 200 and no other request changed the store meanwhile.
Completed(u) == up[u].pc = "done" /\ up[u].status = 200 /\ ~up[u].mixed

\* After such an upload the store holds exactly the accepted records of the
\* file, none of them a record of the store as the request found it.
ReplacedExactly(u) ==
    /\ StripIds(up[u].post) = Accepted(u)
    /\ Len(up[u].post) = up[u].count
    /\ up[u].count > 0
    /\ Range(up[u].post) \cap Range(up[u].pre) = {}

\* C1 (as stated): an upload that is not interleaved with another request
\* leaves exactly the N accepted records of its file in the store and none of
\* the earlier records, and two such uploads of the same file leave the same
\* records (ids aside).
C1_ReplaceIdempotentAsStated ==
    /\ \A u \in Uploads : Completed(u) => ReplacedExactly(u)
    /\ \A u, v \in Uploads :
        (Completed(u) /\ Completed(v) /\ up[u].file = up[v].file)
            => StripIds(up[u].post) = StripIds(up[v].post)

\* C1 (amended): an upload that is not interleaved with another request
\* leaves exactly the N accepted records of its file in the store and none of
\* the earlier records; two such uploads of the same file leave the same
\* records (ids aside) when every geocoding call has the same outcome in both.
C1_ReplaceIdempotent ==
    /\ \A u \in Uploads : Completed(u) => ReplacedExactly(u)
    /\ \A u, v \in Uploads :
        (Completed(u) /\ Completed(v) /\ up[u].file = up[v].file
            /\ up[u].geo = up[v].geo)
            => StripIds(up[u].post) = StripIds(up[v].post)

\* C1 witness: the same file, with an accepted and a rejected row, uploaded
\* twice, the second time over the records of the first.
C1_Witness ==
    /\ Completed(1) /\ Completed(2)
    /\ up[1].file = up[2].file /\ up[1].geo = up[2].geo
    /\ up[2].pre # <<>>
    /\ up[2].count > 1 /\ up[2].count < Len(up[2].file.rows)
    /\ store = up[2].post

\* C2: an upload none of whose rows is accepted answers 400 "No valid data
\* found", calls neither clearSalesData nor createMultipleSalesData, and
\* leaves the store as the request found it.
C2_EmptyLeavesStore ==
    \A u \in Uploads :
        (up[u].pc = "done" /\ up[u].file.kind = "sheet" /\ Accepted(u) = <<>>)
            => /\ up[u].status = 400
               /\ up[u].message = "No valid data found"
               /\ up[u].calls = <<>>
               /\ (~up[u].mixed => up[u].post = up[u].pre)

\* C2 witness: such an upload answered over a non-empty store, which is kept.
C2_Witness ==
    \E u \in Uploads :
        /\ up[u].pc = "done" /\ up[u].status = 400
        /\ up[u].file.kind = "sheet" /\ up[u].file.rows # <<>>
        /\ up[u].pre # <<>>
        /\ store = up[u].pre

\* C3: a listing read while exactly one ingestion is in flight returns the
\* store as that ingestion found it or the records the ingestion inserts,
\* never the empty store in between.
C3_ReadSeesSnapshot ==
    \A u \in Uploads :
        (seen.valid /\ seen.during = {u} /\ ~up[u].mixed)
            => \/ seen.data = up[u].pre
               \/ StripIds(seen.data) = up[u].arr

\* C4: once two or more successful uploads have completed, a non-empty store
\* holds the accepted records of one single upload.
C4_LastUploadWins ==
    ( /\ \A u \in Uploads : ~InFlight(up[u])
      /\ Cardinality({ u \in Uploads : up[u].status = 200 }) >= 2
      /\ store # <<>> )
        => \E u \in Uploads : up[u].status = 200 /\ StripIds(store) = up[u].arr

\* ------------------------------------------- properties of the row loop
\* The row of the one-row file of upload 1, and the outcome of its geocoding
\* call (GeoNone when none was made).
TheRow == up[1].file.rows[1]
TheGeo == IF up[1].geo # <<>> THEN up[1].geo[1] ELSE GeoNone

\* The row loop of upload 1 has run over the row.
RowDone ==
    /\ up[1].pc \in {"clear", "insert", "done"}
    /\ up[1].file.kind = "sheet"
    /\ up[1].file.rows # <<>>

RowRejected ==
    /\ up[1].arr = <<>>
    /\ up[1].pc = "done"
    /\ up[1].status = 400
    /\ store = <<>>

\* The cell is missing or the empty string.
EmptyCell(c) == c.t = "undef" \/ (c.t = "str" /\ c.s = <<>>)

NoPlace(row) ==
    \/ EmptyCell(row.State) /\ EmptyCell(row.state)
    \/ EmptyCell(row.City) /\ EmptyCell(row.city)

Usable(x) == x # 0 /\ x # NaN

\* C5: a row whose state or city is missing or empty under both headers is
\* rejected whatever its other fields and the geocoding credential are, and
\* never reaches the store.
C5_MissingPlaceRejected ==
    (RowDone /\ NoPlace(TheRow)) => (RowRejected /\ up[1].geo = <<>>)

\* C5 witness: a row without state, with a city, usable coordinates and a
\* geocoding credential configured, is rejected.
C5_Witness ==
    /\ RowDone /\ RowRejected
    /\ UploadApiKey(env)
    /\ EmptyCell(TheRow.State) /\ EmptyCell(TheRow.state)
    /\ Truthy(RowCity(TheRow))
    /\ Usable(ExcelLatitude(TheRow)) /\ Usable(ExcelLongitude(TheRow))

\* The text is empty once its white space is trimmed.
BlankText(c) == c.t = "str" /\ SkipWs(c.s) = <<>>

\* C6: a row whose state or city is empty after trimming is rejected, so that
\* every stored record has a state and a city that are non-empty after
\* trimming.
C6_BlankPlaceRejected ==
    /\ (RowDone /\ (BlankText(RowState(TheRow)) \/ BlankText(RowCity(TheRow))))
            => RowRejected
    /\ \A i \in DOMAIN store :
            ~BlankText(store[i].state) /\ ~BlankText(store[i].city)

\* C7: every stored record has a non-zero latitude and a non-zero longitude;
\* a row whose resolved latitude or longitude is 0 is rejected.
C7_NonZeroCoordinates ==
    /\ \A i \in DOMAIN store :
            store[i].latitude # 0 /\ store[i].longitude # 0
    /\ (RowDone /\ (RowLatitude(TheRow, TheGeo) = 0 \/ RowLongitude(TheRow, TheGeo) = 0))
            => RowRejected

\* C7 witness: a row with state and city, latitude 0 and a usable longitude
\* is rejected.
C7_Witness ==
    /\ RowDone /\ RowRejected
    /\ Truthy(RowState(TheRow)) /\ Truthy(RowCity(TheRow))
    /\ RowLatitude(TheRow, TheGeo) = 0
    /\ Usable(RowLongitude(TheRow, TheGeo))

\* The total the row supplies, parsed as an integer (NaN when absent or
\* unparsable).
SuppliedTotal(row) == parseInt(Or(row.Total, row.total))

YearSum(d) == d.sales2022 + d.sales2023 + d.sales2024 + d.sales2025

TotalAsSpecified(d, row) ==
    d.total = IF Usable(SuppliedTotal(row)) THEN SuppliedTotal(row) ELSE YearSum(d)

\* C8: the total of the record of an accepted row is the supplied total when
\* that is present and non-zero, and the sum of the record's four yearly
\* figures otherwise.
C8_TotalOrSum ==
    RowDone =>
        /\ \A i \in DOMAIN up[1].arr : TotalAsSpecified(up[1].arr[i], TheRow)
        /\ \A i \in DOMAIN store : TotalAsSpecified(store[i], TheRow)

\* C8 witness: a stored record of a row without a usable total, whose total
\* is the non-zero sum of its yearly figures.
C8_Witness ==
    /\ RowDone /\ Len(store) = 1
    /\ ~Usable(SuppliedTotal(TheRow))
    /\ store[1].total = YearSum(store[1])
    /\ store[1].total # 0

\* The cell is missing or does not parse as an integer.
NoNumber(c) == c.t = "undef" \/ parseInt(c) = NaN

GoodPlace ==
    /\ RowState(TheRow).t = "str" /\ Truthy(RowState(TheRow))
    /\ RowCity(TheRow).t = "str" /\ Truthy(RowCity(TheRow))
    /\ Usable(RowLatitude(TheRow, TheGeo))
    /\ Usable(RowLongitude(TheRow, TheGeo))

\* C9: a row with state, city and non-zero coordinates is accepted whatever
\* its yearly figures and total are, each missing or unparsable one being 0
\* in the record.
C9_NumbersNeverReject ==
    (RowDone /\ GoodPlace) =>
        /\ Len(up[1].arr) = 1
        /\ NoNumber(TheRow.y2022) => up[1].arr[1].sales2022 = 0
        /\ NoNumber(TheRow.y2023) => up[1].arr[1].sales2023 = 0
        /\ NoNumber(TheRow.y2024) => up[1].arr[1].sales2024 = 0
        /\ NoNumber(TheRow.y2025) => up[1].arr[1].sales2025 = 0

\* C10: the yearly figures and the total of every stored record are
\* non-negative integers.
C10_NonNegativeSales ==
    \A i \in DOMAIN store :
        /\ store[i].sales2022 >= 0
        /\ store[i].sales2023 >= 0
        /\ store[i].sales2024 >= 0
        /\ store[i].sales2025 >= 0
        /\ store[i].total >= 0

\* The geocoding call of the row was made and failed: it threw, or answered
\* with another status than OK or with no result.
GeocodeFailed ==
    /\ UploadApiKey(env)
    /\ Len(up[1].geo) = 1
    /\ TheGeo.kind \in {"notok", "throw"}

\* A coordinate column of the row, an unparsable value counting as 0.
ZeroIfUnparsable(x) == IF x = NaN THEN 0 ELSE x

\* The row is accepted when its geocoding call succeeds.
AcceptedWhenGeocoded(row) == RowAccepted(row, GeoOk(153, 741))

\* C11: when the credential is configured and the geocoding call of a row
\* fails, the row is decided on its own Latitude and Longitude columns, an
\* unparsable value counting as 0: a row that a successful call would have
\* had accepted is accepted with these coordinates when both are non-zero,
\* and the row is rejected when either is absent, unparsable or zero.
C11_GeocodeFailureFallsBack ==
    (RowDone /\ GeocodeFailed) =>
        LET lat == ZeroIfUnparsable(ExcelLatitude(TheRow))
            lng == ZeroIfUnparsable(ExcelLongitude(TheRow))
        IN  IF lat # 0 /\ lng # 0 /\ AcceptedWhenGeocoded(TheRow)
            THEN /\ Len(up[1].arr) = 1
                 /\ up[1].arr[1].latitude = lat
                 /\ up[1].arr[1].longitude = lng
                 /\ up[1].pc = "done" => (up[1].status = 200 /\ StripIds(store) = up[1].arr)
            ELSE RowRejected

\* C11 witness: a row whose geocoding call threw is stored with the
\* coordinates of its own columns.
C11_Witness ==
    /\ RowDone /\ GeocodeFailed /\ TheGeo.kind = "throw"
    /\ up[1].pc = "done" /\ Len(store) = 1
    /\ store[1].latitude = ExcelLatitude(TheRow)
    /\ store[1].longitude = ExcelLongitude(TheRow)

\* The row loop of upload u has run over every row of its file.
RowsDone(u) ==
    /\ up[u].pc \in {"clear", "insert", "done"}
    /\ up[u].file.kind = "sheet"
    /\ MulterPasses(up[u].file)

\* The file is refused or unreadable as a whole.
FileLevelFailure(f) ==
    \/ f.kind = "corrupt"
    \/ f.mimetype \notin {XlsxType, XlsType, OdsType}
    \/ f.size > 10485760

\* C12: a rejected or throwing row never aborts the batch: the handler ends
\* the row loop with exactly the rows that are accepted on their own, in row
\* order, and an upload is answered 500 only when the file as a whole fails
\* or a store call of the handler fails.
C12_RowFailureIsLocal ==
    \A u \in Uploads :
        /\ RowsDone(u) => up[u].arr = Accepted(u)
        /\ (up[u].pc = "done" /\ up[u].status = 500)
                => (FileLevelFailure(up[u].file) \/ up[u].calls # <<>>)

\* C12 witness: an upload of a sheet with a row the validator throws on, an
\* accepted row and a skipped row is answered 200 with one record.
C12_Witness ==
    \E u \in Uploads :
        /\ up[u].pc = "done" /\ up[u].status = 200
        /\ up[u].file = Sheet(<<rBadYear, rGoa, rNoState>>)
        /\ ~UploadApiKey(env)
        /\ up[u].count = 1
        /\ StripIds(store) = <<SalesDataOf(rGoa, GeoNone)>>

\* C13: every upload request is eventually answered, even when the geocoding
\* service never answers.
C13_UploadResponds ==
    \A u \in Uploads : (up[u].pc # "idle") ~> (up[u].pc = "done")

\* The upload carries a file whose declared type is none of the three
\* accepted ones, or whose size exceeds 10 MiB.
Unsupported(f) ==
    /\ f.kind # "none"
    /\ (f.mimetype \notin {XlsxType, XlsType, OdsType} \/ f.size > 10485760)

\* C14: an upload of an unsupported file is refused before any row is read
\* or normalised, any geocoding call and any store call, and the store is
\* the one the request found.
C14_UnsupportedUploadRejected ==
    \A u \in Uploads :
        (up[u].pc # "idle" /\ Unsupported(up[u].file)) =>
            /\ up[u].pc = "done"
            /\ up[u].status >= 400
            /\ up[u].count = 0
            /\ up[u].arr = <<>>
            /\ up[u].geo = <<>>
            /\ up[u].calls = <<>>
            /\ up[u].post = up[u].pre

\* C14 witness: a readable sheet declared as text/csv is refused over a
\* non-empty store, which is kept.
C14_Witness ==
    \E u \in Uploads :
        /\ up[u].pc = "done"
        /\ up[u].file = CsvFile
        /\ up[u].status >= 400
        /\ up[u].pre # <<>>
        /\ store = up[u].pre

\* ------------------------------------------- properties of the analytics
AllZero(m) ==
    /\ m.totalMarkets = 0
    /\ m.totalSales2024 = 0
    /\ m.avgGrowthRate = 0
    /\ m.marketPenetration = 0
    /\ m.activeMarkets = 0
    /\ m.growthMarkets = 0
    /\ m.emergingMarkets = 0

\* C15: the analytics over the empty record set answer 200 with the seven
\* metrics 0; this is the answer before any upload has inserted and after a
\* clear-data request with no insertion since.
C15_EmptyAnalyticsAllZero ==
    analytics.valid =>
        /\ analytics.data = <<>> => (analytics.status = 200 /\ AllZero(analytics.metrics))
        /\ analytics.cleared => (analytics.status = 200 /\ AllZero(analytics.metrics))
        /\ (\A u \in Uploads : up[u].status # 200)
                => (analytics.status = 200 /\ AllZero(analytics.metrics))

\* C15 witness: the analytics are all 0 after an upload has inserted records
\* and a clear-data request has removed them.
C15_Witness ==
    /\ up[1].status = 200
    /\ cleared
    /\ analytics.valid /\ analytics.cleared
    /\ AllZero(analytics.metrics)

\* The growth of the record from 2022 to 2025, taken as 0 for a zero base,
\* exceeds pct percent.
ExceedsPercent(item, pct) ==
    /\ item.sales2022 # 0
    /\ IF item.sales2022 > 0
       THEN 100 * (item.sales2025 - item.sales2022) > pct * item.sales2022
       ELSE 100 * (item.sales2025 - item.sales2022) < pct * item.sales2022

NumberExceeding(data, pct) ==
    Cardinality({ i \in DOMAIN data : ExceedsPercent(data[i], pct) })

\* C16: growthMarkets and emergingMarkets count the records whose growth,
\* 0 for a record with sales2022 = 0, exceeds 10% and 50%: a record with
\* sales2022 = 0 is counted in neither, whatever its sales2025.
C16_ZeroBaseNeverCounted ==
    analytics.valid =>
        /\ analytics.metrics.growthMarkets = NumberExceeding(analytics.data, 10)
        /\ analytics.metrics.emergingMarkets = NumberExceeding(analytics.data, 50)

NoZeroBase(data) == \A i \in DOMAIN data : data[i].sales2022 # 0

\* C17: over records with sales2022 # 0, growthMarkets counts the records
\* whose growth is strictly over 10% and emergingMarkets those strictly over
\* 50%; and always emergingMarkets <= growthMarkets <= totalMarkets.
C17_StrictThresholds ==
    analytics.valid =>
        /\ NoZeroBase(analytics.data) =>
                /\ analytics.metrics.growthMarkets = NumberExceeding(analytics.data, 10)
                /\ analytics.metrics.emergingMarkets = NumberExceeding(analytics.data, 50)
        /\ analytics.metrics.emergingMarkets <= analytics.metrics.growthMarkets
        /\ analytics.metrics.growthMarkets <= analytics.metrics.totalMarkets

\* C17 witness: of two records, one growing from 100 to 150 and one from 100
\* to 151, both are growth markets and only the second is an emerging one.
C17_Witness ==
    /\ analytics.valid /\ Len(analytics.data) = 2
    /\ analytics.data[1].sales2022 = 100 /\ analytics.data[1].sales2025 = 150
    /\ analytics.data[2].sales2022 = 100 /\ analytics.data[2].sales2025 = 151
    /\ analytics.metrics.growthMarkets = 2
    /\ analytics.metrics.emergingMarkets = 1

Lcm(a, b) == (a * b) \div Gcd(a, b)

\* The least common multiple of the non-zero 2022 figures of the records.
RECURSIVE BaseMultiple(_)
BaseMultiple(data) ==
    IF data = <<>> THEN 1
    ELSE Lcm(IF Head(data).sales2022 = 0 THEN 1 ELSE Abs(Head(data).sales2022),
             BaseMultiple(Tail(data)))

\* The sum of the growth percentages of the records, times the integer p
\* that every non-zero 2022 figure divides; a zero base adds 0.
RECURSIVE ScaledGrowthSum(_, _)
ScaledGrowthSum(data, p) ==
    IF data = <<>> THEN 0
    ELSE LET item == Head(data)
             one == IF item.sales2022 = 0 THEN 0
                    ELSE 100 * (item.sales2025 - item.sales2022) * (p \div item.sales2022)
         IN  one + ScaledGrowthSum(Tail(data), p)

\* r tenths is the mean growth of all the records rounded to one decimal:
\* |r / 10 - sum / (p * n)| <= 1 / 20.
IsRoundedMean(r, data) ==
    LET p == BaseMultiple(data)
        n == Len(data)
    IN  2 * Abs(r * n * p - 10 * ScaledGrowthSum(data, p)) <= n * p

\* C18: avgGrowthRate is the mean over all the records of the growth
\* percentage, a record with sales2022 = 0 counting as 0 and staying in the
\* denominator, rounded to one decimal; it is 0 over no record.
C18_AverageGrowth ==
    analytics.valid =>
        IF analytics.data = <<>> THEN analytics.metrics.avgGrowthRate = 0
        ELSE IsRoundedMean(analytics.metrics.avgGrowthRate, analytics.data)

\* C18 witness: over a record with a zero base and one growing from 3 to 4
\* the average is 16.7, half of 33.33.
C18_Witness ==
    /\ analytics.valid /\ Len(analytics.data) = 2
    /\ analytics.data[1].sales2022 = 0
    /\ analytics.data[2].sales2022 = 3 /\ analytics.data[2].sales2025 = 4
    /\ analytics.metrics.avgGrowthRate = 167

\* C19: when neither GOOGLE_MAP_API nor GOOGLE_GEOCODING_API is set, whatever
\* the other environment variables are, an upload makes no geocoding call and
\* takes the coordinates of the spreadsheet, the geocode proxy answers 500
\* and maps-config answers apiKey null.
C19_TwoCredentialKeys ==
    (~env.GOOGLE_MAP_API /\ ~env.GOOGLE_GEOCODING_API) =>
        /\ \A u \in Uploads :
                /\ up[u].pc # "fetch"
                /\ up[u].geo = <<>>
                /\ RowsDone(u) => up[u].arr = AcceptedOf(up[u].file.rows, <<>>, FALSE)
        /\ proxy.valid => proxy.status = 500
        /\ config.valid => ~config.apiKey

\* The store calls an upload handler makes: none, the clear, or the clear
\* and then the insertion.
ClearThenInsert(calls) ==
    calls \in { <<>>, <<"clearSalesData">>, <<"clearSalesData", "createMultipleSalesData">> }

\* Upload u calls createMultipleSalesData in this step.
CallsInsert(u) ==
    /\ up'[u].calls # up[u].calls
    /\ up'[u].calls[Len(up'[u].calls)] = "createMultipleSalesData"

\* C20: the store is empty until an upload has inserted; the clear-data
\* request the dashboard posts on load leaves it empty; an upload calls
\* createMultipleSalesData only in the step in which its own clearSalesData
\* call completes, on the store that call has emptied; and once a clear-data
\* request is answered the store and every listing are empty until an upload
\* inserts.
C20_ClearedBeforeInsert ==
    /\ []((\A u \in Uploads : up[u].status # 200) => store = <<>>)
    /\ [](\A u \in Uploads : ClearThenInsert(up[u].calls))
    /\ [](cleared => getAllSalesData(store) = <<>>)
    /\ [][DashboardLoad => store' = <<>>]_vars
    /\ [][\A u \in Uploads :
            CallsInsert(u) => (up[u].pc = "clear" /\ up'[u].pc = "insert" /\ store' = <<>>)]_vars
    /\ [][(cleared /\ seen' # seen) => seen'.data = <<>>]_vars

\* C20 witness: an upload has cleared and inserted, a clear-data request has
\* emptied the store since, and the listing read with no upload in flight is
\* empty.
C20_Witness ==
    /\ cleared /\ store = <<>>
    /\ seen.valid /\ seen.data = <<>> /\ seen.during = {}
    /\ \E u \in Uploads :
            /\ up[u].status = 200
            /\ up[u].calls = <<"clearSalesData", "createMultipleSalesData">>
            /\ up[u].post # <<>>

\* The request reached the handler and was answered.
Answered(u) == up[u].pc = "done" /\ (up[u].file.kind = "none" \/ ~Unsupported(up[u].file))

ReadAnswered ==
    \/ analytics' # analytics
    \/ seen' # seen
    \/ proxy' # proxy
    \/ config' # config

\* C22: a request to the analytics, the listing, the geocode proxy or
\* maps-config leaves the store as it was, and any two analytics responses
\* computed from equal records (ids aside) carry equal metrics.
C22_ReadsArePure ==
    /\ [][ReadAnswered => (store' = store /\ currentId' = currentId)]_vars
    /\ [](\A a, b \in Earlier :
            StripIds(a.data) = StripIds(b.data) => a.metrics = b.metrics)

\* C22 witness: two analytics responses computed from equal records with
\* different ids, over a store that still holds the records of the second.
C22_Witness ==
    /\ analytics.valid /\ store # <<>> /\ analytics.data = store
    /\ proxy.valid /\ config.valid /\ seen.valid
    /\ \E a \in Earlier :
            /\ a.data # analytics.data
            /\ StripIds(a.data) = StripIds(analytics.data)

\* C23: an upload answered 400 or 500 leaves the store as the request found
\* it.
C23_ErrorLeavesStore ==
    \A u \in Uploads :
        (up[u].pc = "done" /\ up[u].status \in {400, 500} /\ ~up[u].mixed)
            => up[u].post = up[u].pre

\* ------------------------------------------ properties of the data table
\* C24: whenever the filtered list of the data table is non-empty, the
\* current page is between 1 and ceil(filtered count / 10) and the rows
\* displayed are not an empty slice.
C24_PageWithinRange ==
    Len(filteredData(table)) > 0 =>
        /\ 1 <= table.currentPage
        /\ 10 * (table.currentPage - 1) < Len(filteredData(table))
        /\ paginatedData(table) # <<>>

\* C25: whatever record-set, year-selection and view-mode changes the map has
\* seen, what is drawn on it belongs to the current record set and view mode:
\* never a heatmap layer together with markers, no overlay drawn by an
\* earlier update, and nothing at all when the record set is empty.
C25_OverlaysAreCurrent ==
    /\ ~(\E h \in mapView.onMap, k \in mapView.onMap :
            h.kind = "heatmap" /\ k.kind \in {"marker", "label"})
    /\ \A o \in mapView.onMap : o.update = mapView.update
    /\ mapView.salesData = <<>> => mapView.onMap = {}

\* C26: for the records an analytics response was computed from, the three
\* counts of the map's Quick Stats panel (active: total > 0, growth: rate over
\* 10, emerging: rate over 50, the rate of a zero base with sales in 2025
\* being 100) are the response's activeMarkets, growthMarkets and
\* emergingMarkets.
C26_QuickStatsMatchAnalytics ==
    analytics.valid =>
        LET stats == QuickStats(analytics.data)
        IN  /\ stats.activeMarkets = analytics.metrics.activeMarkets
            /\ stats.growthMarkets = analytics.metrics.growthMarkets
            /\ stats.emergingMarkets = analytics.metrics.emergingMarkets

\* Analytics was computed from two records, one of a zero base with sales in
\* 2025 and one that grew by exactly 10 percent: the first is counted as a
\* growth and an emerging market on both sides, the second on neither.
C26_Witness ==
    /\ analytics.valid
    /\ Len(analytics.data) = 2
    /\ \E i \in DOMAIN analytics.data :
            /\ analytics.data[i].sales2022 = 0
            /\ analytics.data[i].sales2025 > 0
    /\ \E i \in DOMAIN analytics.data :
            /\ analytics.data[i].sales2022 > 0
            /\ 10 * (analytics.data[i].sales2025 - analytics.data[i].sales2022)
                    = analytics.data[i].sales2022
    /\ QuickStats(analytics.data).growthMarkets = 1
    /\ QuickStats(analytics.data).emergingMarkets = 1
    /\ analytics.metrics.growthMarkets = 1

====
